---- MODULE Spec2Model ----
(***************************************************************************)
(* Model of the UDP telemetry listener (src/udp.py): timestamp extraction, *)
(* task classification, nearest-rank percentiles, the aggregation store,   *)
(* the ingest loop and the SIGINT-driven final report.                     *)
(*                                                                         *)
(* Conventions.                                                            *)
(*  - A JSON value is a record [t, n, s]: t is its Python type after       *)
(*    json.loads, n its numeric content (a float carries its value in      *)
(*    tenths, a list or dict its length), s its text (for a float: "fin",  *)
(*    "nan", "inf" or "-inf").                                             *)
(*  - The text of a `now` field is a sequence of lexical tokens            *)
(*    (whitespace, date-time body, zone suffix), so that strip(), the      *)
(*    'Z' rewrite and fromisoformat are computed and not assumed.          *)
(*  - A Python result is a record [exc, kind, v]: exc names the exception  *)
(*    raised ("" when none), kind is "int", "float", "nan" or "none".      *)
(*  - A quantile q is carried as a whole percentage (99 stands for 0.99).  *)
(***************************************************************************)
EXTENDS Integers, Sequences, FiniteSets, TLC

VARIABLES
    pc,              \* control point of the process
    txt,             \* payload of the datagram being processed (line 93)
    obj,             \* result of json.loads (line 98)
    recv_ms,         \* arrival instant (line 91)
    send_ms,         \* result of parse_send_ms (line 99)
    tname,           \* result of task_key (line 104)
    delays_by_task,  \* the aggregation store, in insertion order (line 68)
    out,             \* console lines printed so far
    status,          \* exit status of the process, "running" while alive
    sigs,            \* SIGINTs handled so far
    ngot,            \* datagrams received so far
    accepted,        \* history: datagrams for which parse_send_ms gave an int
    arg,             \* input of a helper called on its own
    ret,             \* result of a helper called on its own
    tcp              \* the TCP client (main.py): its socket, buffer and console

vars == <<pc, txt, obj, recv_ms, send_ms, tname, delays_by_task, out, status,
          sigs, ngot, accepted, arg, ret, tcp>>

loopVars == <<pc, txt, obj, recv_ms, send_ms, tname, delays_by_task, out,
              status, sigs, ngot, accepted>>

-----------------------------------------------------------------------------
(* Bounds of the model *)

MaxDatagrams == 3
MaxSignals == 2
MaxLen == 3
MaxCmds == 3

-----------------------------------------------------------------------------
(* Python results *)

PyInt(v) == [exc |-> "", kind |-> "int", v |-> v]
PyFloat(v) == [exc |-> "", kind |-> "float", v |-> v]
PyNaN == [exc |-> "", kind |-> "nan", v |-> 0]
PyNone == [exc |-> "", kind |-> "none", v |-> 0]
Raise(e) == [exc |-> e, kind |-> "none", v |-> 0]

Max2(a, b) == IF a >= b THEN a ELSE b

\* math.ceil(a / b) for b > 0
Ceil(a, b) == -((-a) \div b)

\* int(x) of a finite float given in tenths: truncation toward zero
IntOfTenths(n) == IF n >= 0 THEN n \div 10 ELSE -((-n) \div 10)

-----------------------------------------------------------------------------
(* JSON values *)

Absent == [t |-> "absent", n |-> 0, s |-> ""]
Null == [t |-> "null", n |-> 0, s |-> ""]
Bool(b) == [t |-> "bool", n |-> IF b THEN 1 ELSE 0, s |-> ""]
Int_(n) == [t |-> "int", n |-> n, s |-> ""]
Float(tenths) == [t |-> "float", n |-> tenths, s |-> "fin"]
FloatNaN == [t |-> "float", n |-> 0, s |-> "nan"]
FloatInf == [t |-> "float", n |-> 0, s |-> "inf"]
Str(s) == [t |-> "str", n |-> 0, s |-> s]
List(len) == [t |-> "list", n |-> len, s |-> ""]
Dict(len) == [t |-> "dict", n |-> len, s |-> ""]

\* The `now` field: its JSON type and, for a string, its tokens.
NowAbsent == [t |-> "absent", toks |-> <<>>]
NowOther(t) == [t |-> t, toks |-> <<>>]
NowStr(toks) == [t |-> "str", toks |-> toks]

\* bool(v): Python truthiness of a decoded value; a missing field reads as None
Truthy(v) ==
    CASE v.t = "absent" -> FALSE
      [] v.t = "null" -> FALSE
      [] v.t = "bool" -> v.n = 1
      [] v.t = "int" -> v.n # 0
      [] v.t = "float" -> v.s # "fin" \/ v.n # 0
      [] v.t = "str" -> v.s # ""
      [] v.t = "list" -> v.n > 0
      [] v.t = "dict" -> v.n > 0

\* isinstance(v, (int, float)): bool is a subclass of int
IsIntOrFloat(v) == v.t \in {"int", "float", "bool"}

\* int(v) for v an int, bool or float
IntOf(v) ==
    CASE v.t \in {"int", "bool"} -> PyInt(v.n)
      [] v.t = "float" /\ v.s = "fin" -> PyInt(IntOfTenths(v.n))
      [] v.t = "float" /\ v.s = "nan" -> Raise("ValueError")
      [] v.t = "float" /\ v.s \in {"inf", "-inf"} -> Raise("OverflowError")

-----------------------------------------------------------------------------
(* datetime.fromisoformat on the token form of a string *)

IsSpace(tok) == tok = " "

RECURSIVE LStrip(_)
LStrip(toks) ==
    IF toks # <<>> /\ IsSpace(Head(toks)) THEN LStrip(Tail(toks)) ELSE toks

RECURSIVE RStrip(_)
RStrip(toks) ==
    IF toks # <<>> /\ IsSpace(toks[Len(toks)])
    THEN RStrip(SubSeq(toks, 1, Len(toks) - 1))
    ELSE toks

\* str.strip()
Strip(toks) == RStrip(LStrip(toks))

\* s.endswith("Z")
EndsWithZ(toks) == toks # <<>> /\ toks[Len(toks)] = "Z"

\* s[:-1] + "+00:00"
ZToUtc(toks) == Append(SubSeq(toks, 1, Len(toks) - 1), "+00:00")

\* The date-time bodies fromisoformat accepts, with their local time in ms
\* since 1970-01-01T00:00:00.
IsoBodyMs ==
    [b \in {"1970-01-01T00:00:01.500", "1970-01-01T00:00:02",
            "1969-12-31T23:59:59"} |->
        CASE b = "1970-01-01T00:00:01.500" -> 1500
          [] b = "1970-01-01T00:00:02" -> 2000
          [] b = "1969-12-31T23:59:59" -> -1000]

\* The zone suffixes fromisoformat accepts, with their offset in ms.
IsoOffsetMs ==
    [z \in {"+00:00", "+00:01", "-00:01"} |->
        CASE z = "+00:00" -> 0
          [] z = "+00:01" -> 60000
          [] z = "-00:01" -> -60000]

\* datetime.fromisoformat: [ok, local, aware, off]; not ok is ValueError
fromisoformat(toks) ==
    IF Len(toks) = 1 /\ toks[1] \in DOMAIN IsoBodyMs
    THEN [ok |-> TRUE, local |-> IsoBodyMs[toks[1]], aware |-> FALSE, off |-> 0]
    ELSE IF Len(toks) = 2 /\ toks[1] \in DOMAIN IsoBodyMs
                          /\ toks[2] \in DOMAIN IsoOffsetMs
    THEN [ok |-> TRUE, local |-> IsoBodyMs[toks[1]], aware |-> TRUE,
          off |-> IsoOffsetMs[toks[2]]]
    ELSE [ok |-> FALSE, local |-> 0, aware |-> FALSE, off |-> 0]

\* int(dt.timestamp() * 1000) once tzinfo is set
TimestampMs(dt) == dt.local - dt.off

-----------------------------------------------------------------------------
(* Helpers of src/udp.py *)

\* obj.get(...) needs a dict; anything else has no attribute 'get'
IsDict(o) == o.t = "dict"

ParseNow(toks) ==
    LET s0 == Strip(toks)
        s1 == IF EndsWithZ(s0) THEN ZToUtc(s0) ELSE s0
        dt0 == fromisoformat(s1)
        dt == IF dt0.aware THEN dt0 ELSE [dt0 EXCEPT !.aware = TRUE, !.off = 0]
    IN  IF dt0.ok THEN PyInt(TimestampMs(dt)) ELSE PyNone

parse_send_ms(o) ==
    IF ~IsDict(o) THEN Raise("AttributeError")
    ELSE IF IsIntOrFloat(o.epoch_ms) THEN IntOf(o.epoch_ms)
    ELSE IF o.now.t = "str" THEN ParseNow(o.now.toks)
    ELSE PyNone

\* variant: the first field that is present, empty or not
task_key_present(o) ==
    IF ~IsDict(o) THEN Absent
    ELSE IF o.task.t # "absent" THEN o.task
    ELSE IF o.name.t # "absent" THEN o.name
    ELSE IF o.tag.t # "absent" THEN o.tag
    ELSE IF o.event.t # "absent" THEN o.event
    ELSE Str("UNKNOWN")

task_key(o) ==
    IF ~IsDict(o) THEN Absent
    ELSE IF Truthy(o.task) THEN o.task
    ELSE IF Truthy(o.name) THEN o.name
    ELSE IF Truthy(o.tag) THEN o.tag
    ELSE IF Truthy(o.event) THEN o.event
    ELSE Str("UNKNOWN")

-----------------------------------------------------------------------------
(* Percentile engine *)

RECURSIVE InsertAsc(_, _)
InsertAsc(x, s) ==
    IF s = <<>> THEN <<x>>
    ELSE IF x < Head(s) THEN <<x>> \o s
    ELSE <<Head(s)>> \o InsertAsc(x, Tail(s))

RECURSIVE InsertDesc(_, _)
InsertDesc(x, s) ==
    IF s = <<>> THEN <<x>>
    ELSE IF x > Head(s) THEN <<x>> \o s
    ELSE <<Head(s)>> \o InsertDesc(x, Tail(s))

\* variant: sorted(values, reverse=True)
RECURSIVE sortedDesc(_)
sortedDesc(values) ==
    IF values = <<>> THEN <<>>
    ELSE InsertDesc(values[Len(values)],
                    sortedDesc(SubSeq(values, 1, Len(values) - 1)))

\* sorted(values): ascending, on a copy
RECURSIVE sorted(_)
sorted(values) ==
    IF values = <<>> THEN <<>>
    ELSE InsertAsc(values[Len(values)],
                   sorted(SubSeq(values, 1, Len(values) - 1)))

\* vals[k] for a zero-based Python index k
PyIndex(vals, k) ==
    LET n == Len(vals)
    IN  IF k >= 0 /\ k < n THEN PyFloat(vals[k + 1])
        ELSE IF k < 0 /\ k >= -n THEN PyFloat(vals[n + k + 1])
        ELSE Raise("IndexError")

\* variant: math.floor(q * n)
FloorQN(q, n) == (q * n) \div 100

\* math.ceil(q * n), q given in percent
CeilQN(q, n) == Ceil(q * n, 100)

\* variant: no test for an empty collection
percentile_hwm_unguarded(values, q) ==
    LET vals == sorted(values)
        n == Len(vals)
        k == Max2(1, CeilQN(q, n)) - 1
    IN  PyIndex(vals, k)

percentile_hwm(values, q) ==
    IF values = <<>> THEN PyNaN
    ELSE LET vals == sorted(values)
             n == Len(vals)
             k == Max2(1, CeilQN(q, n)) - 1
         IN  PyIndex(vals, k)

\* f"{v:.0f}" of an int, an integral float or nan: what is printed
Fmt0(r) == [nan |-> r.kind = "nan", v |-> r.v]

RECURSIVE format_hwms(_, _)
format_hwms(values, pcts) ==
    IF pcts = <<>> THEN [exc |-> "", parts |-> <<>>]
    ELSE LET v == percentile_hwm(values, Head(pcts))
             rest == format_hwms(values, Tail(pcts))
         IN  IF v.exc # "" THEN [exc |-> v.exc, parts |-> <<>>]
             ELSE IF rest.exc # "" THEN rest
             ELSE [exc |-> "",
                   parts |-> <<[label |-> Head(pcts), nan |-> Fmt0(v).nan,
                                v |-> Fmt0(v).v]>> \o rest.parts]

HWM_PCTS == <<100, 99, 95>>

RECURSIVE MaxOf(_)
MaxOf(s) == IF Len(s) = 1 THEN s[1] ELSE Max2(s[1], MaxOf(Tail(s)))

\* max(arr); ValueError on an empty sequence
max(arr) == IF arr = <<>> THEN Raise("ValueError") ELSE PyInt(MaxOf(arr))

RECURSIVE sum(_)
sum(arr) == IF arr = <<>> THEN 0 ELSE Head(arr) + sum(Tail(arr))

\* f"{s/n:.1f}" in tenths: the quotient rounded to one decimal, ties to even
Fmt1(s, n) ==
    LET num == 10 * s
        f == num \div n
        r == num % n
    IN  IF 2 * r < n THEN f
        ELSE IF 2 * r > n THEN f + 1
        ELSE IF f % 2 = 0 THEN f ELSE f + 1

-----------------------------------------------------------------------------
(* The aggregation store: a defaultdict(list), kept in insertion order *)

IsNumber(v) == v.t \in {"bool", "int", "float"}
Tenths(v) == IF v.t = "float" THEN v.n ELSE 10 * v.n

\* equality of dict keys: numbers by value (True == 1 == 1.0), else by content
KeyEq(a, b) ==
    IF IsNumber(a) /\ IsNumber(b) THEN Tenths(a) = Tenths(b) ELSE a = b

\* hash(k): lists and dicts are unhashable
Hashable(k) == k.t \notin {"list", "dict"}

KeyIndex(d, k) ==
    IF \E i \in 1..Len(d) : KeyEq(d[i].key, k)
    THEN CHOOSE i \in 1..Len(d) : KeyEq(d[i].key, k)
    ELSE 0

\* delays_by_task[k]: a missing key is created with an empty list
GetItem(d, k) ==
    IF KeyIndex(d, k) # 0 THEN d ELSE Append(d, [key |-> k, arr |-> <<>>])

\* arr.append(x) on the list held under k
AppendTo(d, k, x) ==
    [d EXCEPT ![KeyIndex(d, k)].arr = Append(@, x)]

Series(d, k) == d[KeyIndex(d, k)].arr

TotalSamples(d) == sum([i \in 1..Len(d) |-> Len(d[i].arr)])

-----------------------------------------------------------------------------
(* Console lines *)

NoParts == <<>>
Printed(v) == [nan |-> FALSE, v |-> v]
PrintedNaN == [nan |-> TRUE, v |-> 0]

RawLine ==
    [kind |-> "raw", key |-> Absent, n |-> 0, delay |-> 0,
     wcrt |-> PrintedNaN, avg |-> PrintedNaN, hwms |-> NoParts]
NoticeLine == [RawLine EXCEPT !.kind = "notice"]
HeaderLine == [RawLine EXCEPT !.kind = "header"]
SummaryLine(k, delay, wcrt, hwms, n) ==
    [kind |-> "summary", key |-> k, n |-> n, delay |-> delay,
     wcrt |-> Printed(wcrt), avg |-> PrintedNaN, hwms |-> hwms]
TaskLine(k, n, wcrt, avg, hwms) ==
    [kind |-> "task", key |-> k, n |-> n, delay |-> 0,
     wcrt |-> wcrt, avg |-> avg, hwms |-> hwms]

-----------------------------------------------------------------------------
(* Report printer *)

\* str.lower() of the key strings of the model
lower(s) ==
    CASE s = "SORT" -> "sort"
      [] s = "Sort" -> "sort"
      [] s = "SAFETY" -> "safety"
      [] s = "UNKNOWN" -> "unknown"
      [] s = "X" -> "x"
      [] s = "T" -> "t"
      [] s = "TIME" -> "time"
      [] OTHER -> s

\* position of a lower-cased key string in lexicographic order
LexRank(s) ==
    CASE s = "safety" -> 1
      [] s = "sort" -> 2
      [] s = "t" -> 3
      [] s = "time" -> 4
      [] s = "unknown" -> 5
      [] s = "x" -> 6
      [] OTHER -> 0

\* kv[0].lower() needs a str key
HasLower(k) == k.t = "str"

RECURSIVE InsertByKey(_, _)
InsertByKey(e, s) ==
    IF s = <<>> THEN <<e>>
    ELSE IF LexRank(lower(e.key.s)) < LexRank(lower(Head(s).key.s))
    THEN <<e>> \o s
    ELSE <<Head(s)>> \o InsertByKey(e, Tail(s))

\* sorted(items, key=lambda kv: kv[0].lower()): stable
RECURSIVE SortedItems(_)
SortedItems(d) ==
    IF d = <<>> THEN <<>>
    ELSE InsertByKey(d[Len(d)], SortedItems(SubSeq(d, 1, Len(d) - 1)))

\* one line of the report (lines 76-80)
ReportLine(e) ==
    LET arr == e.arr
        n == Len(arr)
        wcrt == IF arr # <<>> THEN Fmt0(max(arr)) ELSE PrintedNaN
        hwms == format_hwms(arr, HWM_PCTS)
        avg == IF n # 0 THEN Printed(Fmt1(sum(arr), n)) ELSE PrintedNaN
    IN  [exc |-> hwms.exc,
         line |-> TaskLine(e.key, n, wcrt, avg, hwms.parts)]

RECURSIVE ReportLines(_)
ReportLines(items) ==
    IF items = <<>> THEN [exc |-> "", lines |-> <<>>]
    ELSE LET l == ReportLine(Head(items))
             rest == ReportLines(Tail(items))
         IN  IF l.exc # "" THEN [exc |-> l.exc, lines |-> <<>>]
             ELSE [exc |-> rest.exc, lines |-> <<l.line>> \o rest.lines]

\* print_summary(): what it prints, and the exception that ends it if any
print_summary(d) ==
    IF d = <<>> THEN [exc |-> "", lines |-> <<NoticeLine>>]
    ELSE IF \E i \in 1..Len(d) : ~HasLower(d[i].key)
    THEN [exc |-> "AttributeError", lines |-> <<HeaderLine>>]
    ELSE LET r == ReportLines(SortedItems(d))
         IN  [exc |-> r.exc, lines |-> <<HeaderLine>> \o r.lines]

-----------------------------------------------------------------------------
(* Datagrams *)

Obj(epoch_ms, now, task, name, tag, event) ==
    [t |-> "dict", epoch_ms |-> epoch_ms, now |-> now, task |-> task,
     name |-> name, tag |-> tag, event |-> event]

\* a JSON text that is not an object: array, number, string, null, boolean
NonDict(t) ==
    [t |-> t, epoch_ms |-> Absent, now |-> NowAbsent, task |-> Absent,
     name |-> Absent, tag |-> Absent, event |-> Absent]

\* a payload: whether json.loads accepts it, and the value it decodes to
Json(o) == [wf |-> TRUE, val |-> o]
NotJson == [wf |-> FALSE, val |-> NonDict("null")]

NoTxt == [wf |-> FALSE, val |-> NonDict("unset")]
NoObj == NonDict("unset")

\* json.loads(txt): the decoded value, or JSONDecodeError
json_loads(t) ==
    IF t.wf THEN [exc |-> "", val |-> t.val]
    ELSE [exc |-> "JSONDecodeError", val |-> NoObj]

\* The payloads the loop is fed.
Datagrams ==
    { NotJson,
      Json(NonDict("list")),
      Json(Obj(Absent, NowAbsent, Str("SORT"), Absent, Absent, Absent)),
      Json(Obj(Int_(1990), NowAbsent, Str("SORT"), Absent, Absent, Absent)),
      Json(Obj(Int_(1950), NowAbsent, Str("SORT"), Absent, Absent, Absent)),
      Json(Obj(Int_(2010), NowStr(<<"junk">>), Str("Sort"), Absent, Absent,
               Absent)),
      Json(Obj(Float(19905), NowAbsent, Str(""), Str("X"), Absent, Absent)),
      Json(Obj(Absent, NowStr(<<" ", "1970-01-01T00:00:01.500", "Z", " ">>),
               Absent, Absent, Absent, Absent)),
      Json(Obj(Int_(1990), NowAbsent, List(1), Absent, Absent, Absent)),
      Json(Obj(Int_(1990), NowAbsent, Int_(5), Absent, Absent, Absent)),
      Json(Obj(FloatNaN, NowAbsent, Str("SORT"), Absent, Absent, Absent)) }

\* time.time_ns() // 1_000_000 at the arrivals
RecvTimes == {2000}

-----------------------------------------------------------------------------
(* The process: ingest loop (lines 89-117) and SIGINT handler (82-86) *)

NoArg == <<>>
NoRet == <<>>

InitLoop ==
    /\ pc = "LISTENING"
    /\ txt = NoTxt
    /\ obj = NoObj
    /\ recv_ms = PyNone
    /\ send_ms = PyNone
    /\ tname = Absent
    /\ delays_by_task = <<>>
    /\ out = <<>>
    /\ status = "running"
    /\ sigs = 0
    /\ ngot = 0
    /\ accepted = 0

\* the TCP client is a separate program: not started
NoTcp == <<>>

Init == InitLoop /\ arg = NoArg /\ ret = NoRet /\ tcp = NoTcp

\* `continue`: back to recvfrom. The loop variables are dead there (each is
\* assigned before it is read again), so they are cleared.
Continue ==
    /\ pc' = "LISTENING"
    /\ txt' = NoTxt
    /\ obj' = NoObj
    /\ recv_ms' = PyNone
    /\ send_ms' = PyNone
    /\ tname' = Absent

\* an exception nothing catches: traceback, exit status 1
Uncaught ==
    /\ pc' = "CRASHED"
    /\ status' = "1"

\* variant: the raw line is not printed on arrival
ReceiveQuiet ==
    /\ pc = "LISTENING"
    /\ ngot < MaxDatagrams
    /\ \E d \in Datagrams, t \in RecvTimes :
          /\ txt' = d
          /\ recv_ms' = PyInt(t)
    /\ ngot' = ngot + 1
    /\ pc' = "DECODING"
    /\ UNCHANGED <<obj, send_ms, tname, delays_by_task, out, status, sigs,
                   accepted, arg, ret, tcp>>

\* lines 90-95: a datagram arrives, its raw line is printed
Receive ==
    /\ pc = "LISTENING"
    /\ ngot < MaxDatagrams
    /\ \E d \in Datagrams, t \in RecvTimes :
          /\ txt' = d
          /\ recv_ms' = PyInt(t)
    /\ out' = Append(out, RawLine)
    /\ ngot' = ngot + 1
    /\ pc' = "DECODING"
    /\ UNCHANGED <<obj, send_ms, tname, delays_by_task, status, sigs,
                   accepted, arg, ret, tcp>>

\* lines 98, 115-117: json.loads
Decode ==
    /\ pc = "DECODING"
    /\ LET r == json_loads(txt)
       IN  IF r.exc = "JSONDecodeError"
           THEN Continue
           ELSE /\ obj' = r.val
                /\ pc' = "TIMESTAMPING"
                /\ UNCHANGED <<txt, recv_ms, send_ms, tname>>
    /\ UNCHANGED <<delays_by_task, out, status, sigs, ngot, accepted, arg,
                   ret, tcp>>

\* variant: the series is looked up before the None test
TimestampEager ==
    /\ pc = "TIMESTAMPING"
    /\ LET r == parse_send_ms(obj)
       IN  IF r.exc # ""
           THEN /\ Uncaught
                /\ UNCHANGED <<txt, obj, recv_ms, send_ms, tname, accepted,
                               delays_by_task>>
           ELSE IF r.kind = "none"
           THEN /\ Continue
                /\ delays_by_task' = GetItem(delays_by_task, task_key(obj))
                /\ UNCHANGED <<status, accepted>>
           ELSE /\ send_ms' = r
                /\ accepted' = accepted + 1
                /\ pc' = "CLASSIFYING"
                /\ UNCHANGED <<txt, obj, recv_ms, tname, status,
                               delays_by_task>>
    /\ UNCHANGED <<out, sigs, ngot, arg, ret, tcp>>

\* lines 99-101: parse_send_ms and the None test
Timestamp ==
    /\ pc = "TIMESTAMPING"
    /\ LET r == parse_send_ms(obj)
       IN  IF r.exc # ""
           THEN /\ Uncaught
                /\ UNCHANGED <<txt, obj, recv_ms, send_ms, tname, accepted>>
           ELSE IF r.kind = "none"
           THEN /\ Continue
                /\ UNCHANGED <<status, accepted>>
           ELSE /\ send_ms' = r
                /\ accepted' = accepted + 1
                /\ pc' = "CLASSIFYING"
                /\ UNCHANGED <<txt, obj, recv_ms, tname, status>>
    /\ UNCHANGED <<delays_by_task, out, sigs, ngot, arg, ret, tcp>>

\* recv_ms - send_ms (line 103)
delay_ms == recv_ms.v - send_ms.v

\* line 104: task_key
Classify ==
    /\ pc = "CLASSIFYING"
    /\ tname' = task_key(obj)
    /\ pc' = "LOOKUP"
    /\ UNCHANGED <<txt, obj, recv_ms, send_ms, delays_by_task, out, status,
                   sigs, ngot, accepted, arg, ret, tcp>>

\* line 107: arr = delays_by_task[tname]
Lookup ==
    /\ pc = "LOOKUP"
    /\ IF Hashable(tname)
       THEN /\ delays_by_task' = GetItem(delays_by_task, tname)
            /\ pc' = "APPENDING"
            /\ UNCHANGED status
       ELSE /\ Uncaught
            /\ UNCHANGED delays_by_task
    /\ UNCHANGED <<txt, obj, recv_ms, send_ms, tname, out, sigs, ngot,
                   accepted, arg, ret, tcp>>

\* line 108: arr.append(int(delay_ms))
AppendSample ==
    /\ pc = "APPENDING"
    /\ delays_by_task' = AppendTo(delays_by_task, tname, delay_ms)
    /\ pc' = "SUMMARISING"
    /\ UNCHANGED <<txt, obj, recv_ms, send_ms, tname, out, status, sigs,
                   ngot, accepted, arg, ret, tcp>>

RECURSIVE Flatten(_)
Flatten(d) == IF d = <<>> THEN <<>> ELSE Head(d).arr \o Flatten(Tail(d))

\* variant: the figures are computed over the samples of all tasks
SummariseGlobal ==
    /\ pc = "SUMMARISING"
    /\ LET arr == Flatten(delays_by_task)
           wcrt == max(arr)
           hwms_short == format_hwms(arr, <<100, 99>>)
       IN  /\ out' = Append(out, SummaryLine(tname, delay_ms, wcrt.v,
                                             hwms_short.parts, Len(arr)))
           /\ Continue
           /\ UNCHANGED status
    /\ UNCHANGED <<delays_by_task, sigs, ngot, accepted, arg, ret, tcp>>

\* variant: the series is sorted in place (arr.sort()) for the percentiles
SummariseInPlace ==
    /\ pc = "SUMMARISING"
    /\ LET arr == Series(delays_by_task, tname)
           wcrt == max(arr)
           hwms_short == format_hwms(arr, <<100, 99>>)
       IN  /\ out' = Append(out, SummaryLine(tname, delay_ms, wcrt.v,
                                             hwms_short.parts, Len(arr)))
           /\ delays_by_task' =
                 [delays_by_task EXCEPT
                    ![KeyIndex(delays_by_task, tname)].arr = sorted(@)]
           /\ Continue
           /\ UNCHANGED status
    /\ UNCHANGED <<sigs, ngot, accepted, arg, ret, tcp>>

\* lines 109-113: the per-message summary line
Summarise ==
    /\ pc = "SUMMARISING"
    /\ LET arr == Series(delays_by_task, tname)
           wcrt == max(arr)
           hwms_short == format_hwms(arr, <<100, 99>>)
       IN  IF wcrt.exc # "" \/ hwms_short.exc # ""
           THEN /\ Uncaught
                /\ UNCHANGED <<txt, obj, recv_ms, send_ms, tname, out>>
           ELSE /\ out' = Append(out, SummaryLine(tname, delay_ms, wcrt.v,
                                                  hwms_short.parts, Len(arr)))
                /\ Continue
                /\ UNCHANGED status
    /\ UNCHANGED <<delays_by_task, sigs, ngot, accepted, arg, ret, tcp>>

Alive == pc \notin {"EXITED", "CRASHED"}

\* SIGINT: Python runs handle_sigint between two bytecodes of the main
\* thread, wherever it is, the handler itself included (line 82). The handler
\* never returns to the interrupted code (it ends in sys.exit or in an
\* exception), so the loop variables are dead from here on and are cleared.
handle_sigint ==
    /\ Alive
    /\ sigs < MaxSignals
    /\ sigs' = sigs + 1
    /\ pc' = "HANDLER"
    /\ txt' = NoTxt
    /\ obj' = NoObj
    /\ recv_ms' = PyNone
    /\ send_ms' = PyNone
    /\ tname' = Absent
    /\ UNCHANGED <<delays_by_task, out, status, ngot, accepted, arg, ret, tcp>>

\* line 83: print_summary()
PrintSummary ==
    /\ pc = "HANDLER"
    /\ LET r == print_summary(delays_by_task)
       IN  /\ out' = out \o r.lines
           /\ IF r.exc # ""
              THEN Uncaught
              ELSE pc' = "SYS_EXIT" /\ UNCHANGED status
    /\ UNCHANGED <<txt, obj, recv_ms, send_ms, tname, delays_by_task, sigs,
                   ngot, accepted, arg, ret, tcp>>

\* a further SIGINT while print_summary is running: the handler is entered
\* again after the first j lines of the report, and the interrupted report
\* is never resumed
InterruptReport ==
    /\ pc = "HANDLER"
    /\ sigs < MaxSignals
    /\ LET r == print_summary(delays_by_task)
       IN  \E j \in 1..Len(r.lines) : out' = out \o SubSeq(r.lines, 1, j)
    /\ sigs' = sigs + 1
    /\ pc' = "HANDLER"
    /\ UNCHANGED <<txt, obj, recv_ms, send_ms, tname, delays_by_task, status,
                   ngot, accepted, arg, ret, tcp>>

\* line 84: sys.exit(0)
SysExit ==
    /\ pc = "SYS_EXIT"
    /\ pc' = "EXITED"
    /\ status' = "0"
    /\ UNCHANGED <<txt, obj, recv_ms, send_ms, tname, delays_by_task, out,
                   sigs, ngot, accepted, arg, ret, tcp>>

Next ==
    \/ Receive
    \/ Decode
    \/ Timestamp
    \/ Classify
    \/ Lookup
    \/ AppendSample
    \/ Summarise
    \/ handle_sigint
    \/ PrintSummary
    \/ InterruptReport
    \/ SysExit

Spec == Init /\ [][Next]_vars

-----------------------------------------------------------------------------
(* The helpers called on their own, over bounded sets of inputs *)

Pending == [exc |-> "", kind |-> "pending", v |-> 0]
PendingKey == [t |-> "pending", n |-> 0, s |-> ""]

Body == "1970-01-01T00:00:01.500"

EpochVals ==
    { Absent, Null, Bool(TRUE), Bool(FALSE), Int_(1990), Int_(-3), Float(19),
      Float(-15), FloatNaN, FloatInf, Str("12") }

NowVals ==
    { NowAbsent, NowOther("int"), NowOther("null"),
      NowStr(<<Body, "Z">>), NowStr(<<"1970-01-01T00:00:02">>),
      NowStr(<<" ", Body, "+00:01", " ">>), NowStr(<<"junk">>), NowStr(<<>>),
      NowStr(<<Body, " ", "Z">>), NowStr(<<"Z">>) }

TaskVals == { Absent, Str(""), Str("SORT"), List(1) }
NameVals == { Absent, Int_(0), Str("X") }
TagVals == { Absent, Null, Str("T") }
EventVals == { Absent, Bool(FALSE), Str("TIME") }

\* decoded JSON objects
Objects ==
    { Obj(e, n, ta, na, tg, ev) :
        e \in EpochVals, n \in NowVals, ta \in TaskVals, na \in NameVals,
        tg \in TagVals, ev \in EventVals }

InitExtract ==
    /\ InitLoop
    /\ arg \in Objects
    /\ ret = [send |-> Pending, key |-> PendingKey]
    /\ tcp = NoTcp

CallParseSendMs ==
    /\ ret.send = Pending
    /\ ret' = [ret EXCEPT !.send = parse_send_ms(arg)]
    /\ UNCHANGED <<loopVars, arg, tcp>>

CallTaskKey ==
    /\ ret.key = PendingKey
    /\ ret' = [ret EXCEPT !.key = task_key(arg)]
    /\ UNCHANGED <<loopVars, arg, tcp>>

NextExtract == CallParseSendMs \/ CallTaskKey

SpecExtract == InitExtract /\ [][NextExtract]_vars

SampleVals == {-7, 0, 3, 10, 50}
Quantiles == 1..100

SeqsUpTo(S, n) == UNION { [1..m -> S] : m \in 0..n }

InitPercentile ==
    /\ InitLoop
    /\ arg \in [values : SeqsUpTo(SampleVals, MaxLen), q : Quantiles]
    /\ ret = Pending
    /\ tcp = NoTcp

CallPercentileHwm ==
    /\ ret = Pending
    /\ ret' = percentile_hwm(arg.values, arg.q)
    /\ UNCHANGED <<loopVars, arg, tcp>>

NextPercentile == CallPercentileHwm

SpecPercentile == InitPercentile /\ [][NextPercentile]_vars

-----------------------------------------------------------------------------
(* The TCP client of src/main.py and the server it talks to.  A byte string
   is a sequence of tokens: "\n" is the newline, "r1", "r2", ... the text of
   the server's reply to the 1st, 2nd, ... command. *)

NL == "\n"

\* the server's answer to the k-th command: one newline-terminated line
ReplyText(k) ==
    CASE k = 1 -> "r1" [] k = 2 -> "r2" [] k = 3 -> "r3" [] k = 4 -> "r4"
      [] OTHER -> "r"
Reply(k) == <<ReplyText(k), NL>>

\* b"\n" in buf
HasNewline(buf) == \E i \in 1..Len(buf) : buf[i] = NL

\* buf.partition(b"\n"): (line, sep, rest)
partition(buf) ==
    IF HasNewline(buf)
    THEN LET i == CHOOSE i \in 1..Len(buf) :
                    buf[i] = NL /\ \A j \in 1..(i - 1) : buf[j] # NL
         IN  [line |-> SubSeq(buf, 1, i - 1), sep |-> <<NL>>,
              rest |-> SubSeq(buf, i + 1, Len(buf))]
    ELSE [line |-> buf, sep |-> <<>>, rest |-> <<>>]

\* results of read_line: a str or None
Line(toks) == [none |-> FALSE, line |-> toks]
NoLine == [none |-> TRUE, line |-> <<>>]

\* lines 89-93: the result of read_line is shown for command tcp.sent and
\* the loop is back at input(); the local buf of read_line is gone
Show(resp) ==
    tcp' = [tcp EXCEPT !.shown = Append(@, [cmd |-> tcp.sent, resp |-> resp]),
                       !.buf = <<>>,
                       !.cpc = "INPUT"]

InitClient ==
    /\ InitLoop
    /\ arg = NoArg
    /\ ret = NoRet
    /\ tcp = [cpc |-> "BANNER", sent |-> 0, answered |-> 0, rcvbuf |-> <<>>,
              buf |-> <<>>, closed |-> FALSE, shown |-> <<>>]

\* lines 65-69: the server sends nothing before the first command, so the
\* first read_line(s, 1.5) returns None (timeout, or EOF) and the loop breaks
Banner ==
    /\ tcp.cpc = "BANNER"
    /\ tcp' = [tcp EXCEPT !.cpc = "INPUT"]
    /\ UNCHANGED <<loopVars, arg, ret>>

\* lines 74-89: a command is read and sent, read_line starts with buf empty
SendCommand ==
    /\ tcp.cpc = "INPUT"
    /\ tcp.sent < MaxCmds
    /\ tcp' = [tcp EXCEPT !.sent = @ + 1, !.buf = <<>>, !.cpc = "READ"]
    /\ UNCHANGED <<loopVars, arg, ret>>

\* lines 85-87: sendall on a connection the server has closed
SendFails ==
    /\ tcp.cpc = "INPUT"
    /\ tcp.closed
    /\ tcp' = [tcp EXCEPT !.cpc = "DONE"]
    /\ UNCHANGED <<loopVars, arg, ret>>

\* lines 75-77: EOF or Ctrl+C at the prompt
Quit ==
    /\ tcp.cpc = "INPUT"
    /\ tcp' = [tcp EXCEPT !.cpc = "DONE"]
    /\ UNCHANGED <<loopVars, arg, ret>>

\* the server answers the oldest unanswered command; the line reaches the
\* client's socket at any later moment
ServerReply ==
    /\ tcp.cpc # "DONE"
    /\ ~tcp.closed
    /\ tcp.answered < tcp.sent
    /\ tcp' = [tcp EXCEPT !.answered = @ + 1,
                          !.rcvbuf = @ \o Reply(tcp.answered + 1)]
    /\ UNCHANGED <<loopVars, arg, ret>>

\* the server closes the connection after answering what it received
ServerClose ==
    /\ tcp.cpc # "DONE"
    /\ ~tcp.closed
    /\ tcp.answered = tcp.sent
    /\ tcp' = [tcp EXCEPT !.closed = TRUE]
    /\ UNCHANGED <<loopVars, arg, ret>>

\* lines 28-41: recv hands over the bytes that have arrived so far (any
\* non-empty prefix of what the server wrote); with a newline in buf the
\* first line is returned, stripped
Recv ==
    /\ tcp.cpc = "READ"
    /\ tcp.rcvbuf # <<>>
    /\ \E n \in 1..Len(tcp.rcvbuf) :
          LET chunk == SubSeq(tcp.rcvbuf, 1, n)
              left == SubSeq(tcp.rcvbuf, n + 1, Len(tcp.rcvbuf))
              buf == tcp.buf \o chunk
          IN  IF HasNewline(buf)
              THEN tcp' = [tcp EXCEPT
                             !.rcvbuf = left,
                             !.shown = Append(@,
                                [cmd |-> tcp.sent,
                                 resp |-> Line(Strip(partition(buf).line))]),
                             !.buf = <<>>,
                             !.cpc = "INPUT"]
              ELSE tcp' = [tcp EXCEPT !.rcvbuf = left, !.buf = buf]
    /\ UNCHANGED <<loopVars, arg, ret>>

\* lines 35-37: recv returns b"" on a closed connection
RecvEof ==
    /\ tcp.cpc = "READ"
    /\ tcp.rcvbuf = <<>>
    /\ tcp.closed
    /\ Show(NoLine)
    /\ UNCHANGED <<loopVars, arg, ret>>

\* lines 26, 42: the deadline passes without a newline in buf
Timeout ==
    /\ tcp.cpc = "READ"
    /\ Show(NoLine)
    /\ UNCHANGED <<loopVars, arg, ret>>

NextClient ==
    \/ Banner
    \/ SendCommand
    \/ SendFails
    \/ Quit
    \/ ServerReply
    \/ ServerClose
    \/ Recv
    \/ RecvEof
    \/ Timeout

SpecClient == InitClient /\ [][NextClient]_vars

-----------------------------------------------------------------------------
(* Properties *)

Lines(kind) == { i \in 1..Len(out) : out[i].kind = kind }
EmptySeries == { i \in 1..Len(delays_by_task) : delays_by_task[i].arr = <<>> }

\* C1: a datagram that is not JSON, or for which parse_send_ms returns None,
\* leaves the store exactly as it was; and whenever the loop is back in
\* recvfrom the store holds as many samples as datagrams were well-formed
\* with a usable timestamp.
C1_DiscardsLeaveStore ==
    /\ [][ (\/ pc = "DECODING" /\ ~txt.wf
            \/ pc = "TIMESTAMPING" /\ parse_send_ms(obj) = PyNone)
           => delays_by_task' = delays_by_task ]_vars
    /\ [](pc = "LISTENING" => TotalSamples(delays_by_task) = accepted)

\* a malformed or untimestamped datagram and a well-formed one were
\* processed: one sample
C1_Witness ==
    /\ pc = "LISTENING"
    /\ ngot = 2
    /\ accepted = 1
    /\ TotalSamples(delays_by_task) = 1

\* C2: no datagram is fatal; the process leaves the loop only through the
\* termination signal.
C2_NoDatagramIsFatal == ~Alive => sigs > 0

\* C3: once parse_send_ms has returned an integer, recording succeeds: no
\* step of it raises, the sample recv_ms - send_ms is appended to the end of
\* the series of task_key(obj) and no other series changes, and the loop
\* returns to recvfrom.
C3_RecordingAlwaysSucceeds ==
    [][ (pc \in {"CLASSIFYING", "LOOKUP", "APPENDING", "SUMMARISING"}
         /\ sigs' = sigs)
        => /\ pc' # "CRASHED"
           /\ pc = "APPENDING" =>
                 LET k == KeyIndex(delays_by_task, task_key(obj))
                 IN  /\ k # 0
                     /\ Len(delays_by_task') = Len(delays_by_task)
                     /\ \A i \in 1..Len(delays_by_task) :
                           delays_by_task'[i] =
                              IF i = k
                              THEN [delays_by_task[i] EXCEPT
                                      !.arr = Append(@, recv_ms.v - send_ms.v)]
                              ELSE delays_by_task[i]
           /\ pc = "SUMMARISING" => pc' = "LISTENING" ]_vars

C6_EmptySeriesIsHarmless ==
    /\ \A q \in Quantiles : percentile_hwm(<<>>, q) = PyNaN
    /\ format_hwms(<<>>, HWM_PCTS).exc = ""
    /\ EmptySeries # {} =>
          LET r == print_summary(delays_by_task)
          IN  r.exc # "" =>
                 \E i \in 1..Len(delays_by_task) :
                    delays_by_task[i].key.t # "str"
    /\ (EmptySeries # {} /\ pc \in {"SYS_EXIT", "EXITED"}) =>
          \A e \in EmptySeries :
             \E i \in Lines("task") :
                /\ out[i].key = delays_by_task[e].key
                /\ out[i].n = 0
                /\ out[i].wcrt.nan /\ out[i].avg.nan
                /\ Len(out[i].hwms) = Len(HWM_PCTS)
                /\ \A j \in 1..Len(out[i].hwms) : out[i].hwms[j].nan

\* the report was printed over a task without samples and the process
\* exited normally
C6_Witness ==
    /\ pc = "EXITED"
    /\ status = "0"
    /\ EmptySeries # {}
    /\ \E i \in Lines("task") : out[i].n = 0

\* C7: parse_send_ms returns an integer or None for every decoded object and
\* never raises.
C7_NoExceptionEscapes == ret.send.exc = ""

IsJsonNumber(v) == v.t \in {"int", "float"}
IsFinite(v) == v.t = "int" \/ v.s = "fin"

\* C8: a (finite) number in epoch_ms gives that number truncated toward
\* zero whatever now holds; otherwise a string in now gives its parsed value,
\* or None when it does not parse; otherwise None.
C8_Precedence ==
    ret.send # Pending =>
        LET e == arg.epoch_ms
            mag == IF e.n < 0 THEN -e.n ELSE e.n
            whole == IF e.t = "int" THEN e.n
                     ELSE IF e.n < 0 THEN -(mag \div 10) ELSE mag \div 10
        IN  IF IsJsonNumber(e)
            THEN IsFinite(e) => ret.send = PyInt(whole)
            ELSE IF arg.now.t = "str" THEN ret.send = ParseNow(arg.now.toks)
            ELSE ret.send = PyNone

\* C9: task_key is the first of task, name, tag, event that is present and
\* not empty/falsy, and "UNKNOWN" when there is none.
Falsy(v) ==
    v \in {Absent, Null, Bool(FALSE), Int_(0), Float(0), Str(""), List(0),
           Dict(0)}

C9_FirstNonEmptyField ==
    ret.key # PendingKey =>
        LET fields == <<arg.task, arg.name, arg.tag, arg.event>>
            good == { i \in 1..4 : ~Falsy(fields[i]) }
        IN  IF good = {} THEN ret.key = Str("UNKNOWN")
            ELSE \E i \in good :
                    /\ \A j \in good : i <= j
                    /\ ret.key = fields[i]

\* an empty task does not hide a name
C9_Witness ==
    /\ arg.task = Str("")
    /\ arg.name = Str("X")
    /\ ret.key = Str("X")

\* C10: when the handler has run with zero samples recorded, the report is
\* the "no samples" notice alone, with no header and no task line, and the
\* exit status is success. (Stated for stores whose keys are strings, so
\* that a failure is not one of sorting a key of another type.)
C10_NoSamplesNotice ==
    (/\ ~Alive /\ sigs > 0
     /\ TotalSamples(delays_by_task) = 0
     /\ \A i \in 1..Len(delays_by_task) : delays_by_task[i].key.t = "str") =>
        /\ status = "0"
        /\ Lines("notice") # {}
        /\ Lines("header") = {}
        /\ Lines("task") = {}

-----------------------------------------------------------------------------
(* Properties of the shutdown, the store and the console *)

ReportStarts == Lines("header") \cup Lines("notice")

\* the lines of the last report started
LastReport ==
    IF ReportStarts = {} THEN <<>>
    ELSE LET h == CHOOSE h \in ReportStarts : \A g \in ReportStarts : g <= h
         IN  SubSeq(out, h, Len(out))

IsPrefix(a, b) == Len(a) <= Len(b) /\ SubSeq(b, 1, Len(a)) = a

\* C11: once the termination signal is handled no datagram is received or
\* recorded any more (the process is in the handler or has ended), and the
\* process ends only with the report run to completion and exit status 0,
\* whatever the store holds.
C11_SignalEndsInReportAndSuccess ==
    /\ sigs > 0 => pc \in {"HANDLER", "SYS_EXIT", "EXITED", "CRASHED"}
    /\ (sigs > 0 /\ ~Alive) =>
          /\ status = "0"
          /\ LastReport # <<>>
          /\ Len(LastReport) =
                IF delays_by_task = <<>> THEN 1 ELSE 1 + Len(delays_by_task)

\* C12: the report printer runs at most once, and only after a termination
\* signal: a further signal during the report starts no second report.
C12_ReportAtMostOnce ==
    /\ Cardinality(ReportStarts) <= 1
    /\ ReportStarts # {} => sigs > 0

\* C13: the store is append-only over every step: keys stay, in place, and
\* each series only grows at its end; the per-message summary and the report
\* printer leave the store as it is.
C13_AppendOnly ==
    [][ /\ Len(delays_by_task) <= Len(delays_by_task')
        /\ \A i \in 1..Len(delays_by_task) :
              /\ delays_by_task'[i].key = delays_by_task[i].key
              /\ IsPrefix(delays_by_task[i].arr, delays_by_task'[i].arr)
        /\ pc \in {"SUMMARISING", "HANDLER", "SYS_EXIT"}
              => delays_by_task' = delays_by_task ]_vars

\* a series that is not in ascending order, after its summary and the report
C13_Witness ==
    /\ pc = "EXITED"
    /\ \E i \in 1..Len(delays_by_task) : delays_by_task[i].arr = <<50, 10>>
    /\ Lines("task") # {}

\* C14: for a non-empty store the report, once print_summary has ended,
\* holds exactly one line per key of the store, in non-decreasing order of
\* the lower-cased keys; keys that differ in case have their own lines.
C14_OneLinePerKeySorted ==
    (sigs > 0 /\ pc \in {"SYS_EXIT", "EXITED", "CRASHED"}
     /\ delays_by_task # <<>>) =>
        LET rep == LastReport
            n == Len(delays_by_task)
        IN  /\ Len(rep) = 1 + n
            /\ rep[1].kind = "header"
            /\ \A i \in 1..n :
                  \E j \in 2..Len(rep) :
                     /\ rep[j].key = delays_by_task[i].key
                     /\ rep[j].n = Len(delays_by_task[i].arr)
                     /\ \A l \in 2..Len(rep) :
                           rep[l].key = rep[j].key => l = j
            /\ \A j \in 2..(Len(rep) - 1) :
                  LexRank(lower(rep[j].key.s))
                     <= LexRank(lower(rep[j + 1].key.s))

\* the summary lines printed so far for the key of line i, line i included
SameTask(i) ==
    { j \in Lines("summary") : j <= i /\ KeyEq(out[j].key, out[i].key) }

\* v is the sample of rank max(1, ceil(q*n)) of the delays of the lines J
IsRank(v, J, q) ==
    LET n == Cardinality(J)
        c == CHOOSE c \in 0..n : 100 * c >= q * n /\ 100 * (c - 1) < q * n
        k == Max2(1, c)
    IN  /\ \E j \in J : out[j].delay = v
        /\ Cardinality({ j \in J : out[j].delay < v }) < k
        /\ Cardinality({ j \in J : out[j].delay <= v }) >= k

\* C15: a summary line for task T shows n = the datagrams accepted so far for
\* T, WCRT = the largest delay recorded so far for T, and HWMs over T's
\* samples only; a report line shows the count, the maximum and the mean to
\* one decimal of that task's series.
C15_PerTaskFigures ==
    /\ \A i \in Lines("summary") :
          LET J == SameTask(i)
          IN  /\ out[i].n = Cardinality(J)
              /\ \A j \in J : out[j].delay <= out[i].wcrt.v
              /\ \E j \in J : out[j].delay = out[i].wcrt.v
              /\ Len(out[i].hwms) = 2
              /\ out[i].hwms[1].label = 100 /\ out[i].hwms[2].label = 99
              /\ IsRank(out[i].hwms[1].v, J, 100)
              /\ IsRank(out[i].hwms[2].v, J, 99)
    /\ \A i \in Lines("task") :
          \E e \in 1..Len(delays_by_task) :
             LET arr == delays_by_task[e].arr
             IN  /\ delays_by_task[e].key = out[i].key
                 /\ out[i].n = Len(arr)
                 /\ arr # <<>> =>
                       /\ \A j \in 1..Len(arr) : arr[j] <= out[i].wcrt.v
                       /\ \E j \in 1..Len(arr) : arr[j] = out[i].wcrt.v
                       /\ LET d == 10 * sum(arr) - out[i].avg.v * Len(arr)
                          IN  2 * d <= Len(arr) /\ -2 * d <= Len(arr)
    /\ pc = "LISTENING" =>
          \A e \in 1..Len(delays_by_task) :
             Len(delays_by_task[e].arr) =
                Cardinality({ j \in Lines("summary") :
                                KeyEq(out[j].key, delays_by_task[e].key) })

\* delays 10 and 50 for SORT, another task in between: the second summary
\* shows n=2, WCRT 50, HWM 50/50, and the report an average of 30.0
C15_Witness ==
    /\ \E i \in Lines("summary") :
          /\ out[i].key = Str("SORT") /\ out[i].n = 2
          /\ out[i].wcrt.v = 50
          /\ out[i].hwms[1].v = 50 /\ out[i].hwms[2].v = 50
    /\ \E i \in Lines("task") :
          /\ out[i].key = Str("SORT") /\ out[i].n = 2
          /\ out[i].wcrt.v = 50 /\ out[i].avg.v = 300
    /\ Len(delays_by_task) = 2

\* C16: every key of the store is a string.
C16_KeysAreStrings ==
    \A i \in 1..Len(delays_by_task) : delays_by_task[i].key.t = "str"

\* C17: wherever the handler can run, every key of the store holds at least
\* one sample.
C17_NoEmptySeries == Alive => EmptySeries = {}

\* C18: each datagram received has its raw line, printed before decoding; a
\* summary line is printed exactly when the sample of the datagram has been
\* recorded and follows that datagram's raw line; in recvfrom there are as
\* many summary lines as samples in the store.
C18_ConsoleTracksLoop ==
    /\ Cardinality(Lines("raw")) = ngot
    /\ \A i \in Lines("summary") : i > 1 /\ out[i - 1].kind = "raw"
    /\ pc \in {"LISTENING", "DECODING", "TIMESTAMPING", "CLASSIFYING",
               "LOOKUP", "APPENDING"}
          => Cardinality(Lines("summary")) = TotalSamples(delays_by_task)
    /\ pc = "SUMMARISING"
          => Cardinality(Lines("summary")) + 1 = TotalSamples(delays_by_task)
    /\ pc = "LISTENING"
          => Cardinality(Lines("summary")) = accepted

\* a discarded datagram and a recorded one: two raw lines, one summary
C18_Witness ==
    /\ pc = "LISTENING"
    /\ ngot = 2
    /\ Cardinality(Lines("raw")) = 2
    /\ Cardinality(Lines("summary")) = 1
    /\ out[1].kind = "raw" /\ out[2].kind = "raw"

-----------------------------------------------------------------------------
(* Properties of the TCP client *)

\* the newlines of a byte string
Newlines(buf) == Cardinality({ i \in 1..Len(buf) : buf[i] = NL })

\* the lines read_line has returned
Returned == { i \in 1..Len(tcp.shown) : ~tcp.shown[i].resp.none }

\* C19: every line shown after the k-th command is the server's reply to the
\* k-th command, and no line the server wrote is dropped with the rest of a
\* chunk: each line written has been returned or is still to be read.
C19_ResponsesStayPaired ==
    /\ \A i \in Returned :
          tcp.shown[i].resp.line = <<ReplyText(tcp.shown[i].cmd)>>
    /\ tcp.answered =
          Cardinality(Returned) + Newlines(tcp.buf) + Newlines(tcp.rcvbuf)

====
